---------------------------- MODULE Spec2Model ----------------------------
(***************************************************************************)
(* Model of calval/normalized_scene.py: the StringableTuple identity codec *)
(* (NormalizedScenesetId, NormalizedSceneId) and the lazy FilebasedScene.   *)
(*                                                                         *)
(* Python strings are modelled as sequences of one-character strings, so   *)
(* that split, join, strftime, strptime and string ordering are computed   *)
(* character by character.                                                 *)
(***************************************************************************)
EXTENDS Integers, Sequences, FiniteSets, TLC

VARIABLES
    a,              \* the identity an operation is applied to (self)
    b,              \* the second identity of a comparison (other)
    s,              \* the string given to from_str
    kwargs,         \* the keyword arguments given to copy_with
    cls,            \* the class a classmethod is invoked on
    op,             \* the operation applied last ("init" before any)
    res,            \* the identity (or the exception) the operation returned
    paths,          \* the strings dir_path/scenepath_prefix/metadata_path/band_path returned
    cmp,            \* the booleans __lt__ and __eq__ returned
    zero_pad_year,  \* whether the platform's strftime pads %Y to four digits
    fs,             \* the filesystem at the scene's path
    scene,          \* the FilebasedScene object (its instance __dict__)
    reads,          \* number of times the metadata file was opened
    failed_reads,   \* number of those opens/loads that raised
    accesses,       \* number of attribute accesses made on the scene
    last            \* what the last scene operation did

codec_vars == <<a, b, s, kwargs, cls, op, res, paths, cmp, zero_pad_year>>
scene_vars == <<fs, scene, reads, failed_reads, accesses, last>>
vars == <<a, b, s, kwargs, cls, op, res, paths, cmp, zero_pad_year,
          fs, scene, reads, failed_reads, accesses, last>>

----------------------------------------------------------------------------
(* Bounds of the model *)

\* from_str is given strings of 1..MaxTokens separator-free tokens
MaxTokens == 6
\* copy_with is given at most MaxOverrides keyword arguments
MaxOverrides == 2
\* a scene directory holds at most MaxFiles files matching *_metadata.json
MaxFiles == 2
\* at most MaxAccesses attribute accesses are made on one scene object
MaxAccesses == 3

----------------------------------------------------------------------------
(* Characters and strings *)

\* ord(c) of the characters identity fields are built from
Code(c) ==
    CASE c = "/" -> 47
      [] c = "0" -> 48 [] c = "1" -> 49 [] c = "2" -> 50 [] c = "3" -> 51
      [] c = "4" -> 52 [] c = "5" -> 53 [] c = "6" -> 54 [] c = "7" -> 55
      [] c = "8" -> 56 [] c = "9" -> 57
      [] c = "A" -> 65 [] c = "E" -> 69 [] c = "I" -> 73 [] c = "L" -> 76
      [] c = "S" -> 83 [] c = "T" -> 84 [] c = "X" -> 88
      [] c = "_" -> 95
      [] c = "a" -> 97

Digits == <<"0", "1", "2", "3", "4", "5", "6", "7", "8", "9">>

IsDigit(c) == \E i \in 1..10 : Digits[i] = c

DigitVal(c) == (CHOOSE i \in 1..10 : Digits[i] = c) - 1

\* Python's x < y on two str: lexicographic by code point, a proper prefix is smaller
RECURSIVE StrLt(_, _)
StrLt(x, y) ==
    IF y = <<>> THEN FALSE
    ELSE IF x = <<>> THEN TRUE
    ELSE IF Head(x) # Head(y) THEN Code(Head(x)) < Code(Head(y))
    ELSE StrLt(Tail(x), Tail(y))

\* sep.join(parts)
RECURSIVE Join(_, _)
Join(parts, sep) ==
    IF parts = <<>> THEN <<>>
    ELSE IF Len(parts) = 1 THEN parts[1]
    ELSE parts[1] \o sep \o Join(Tail(parts), sep)

\* str.split(sep) for a one-character sep: empty tokens are kept
RECURSIVE Split(_, _)
Split(str, sep) ==
    IF \A i \in 1..Len(str) : str[i] # sep THEN <<str>>
    ELSE LET i == CHOOSE k \in 1..Len(str) :
                      str[k] = sep /\ \A j \in 1..(k - 1) : str[j] # sep
         IN  <<SubSeq(str, 1, i - 1)>> \o Split(SubSeq(str, i + 1, Len(str)), sep)


----------------------------------------------------------------------------
(* datetime, strftime and strptime with the format '%Y%m%d%H%M' *)

datetime(y, mo, d, h, mi, sec) ==
    [year |-> y, month |-> mo, day |-> d, hour |-> h, minute |-> mi, second |-> sec]

NoDatetime == datetime(0, 0, 0, 0, 0, 0)

IsLeap(y) == y % 4 = 0 /\ (y % 100 # 0 \/ y % 400 = 0)

DaysInMonth(y, mo) ==
    IF mo = 2 THEN (IF IsLeap(y) THEN 29 ELSE 28)
    ELSE IF mo \in {4, 6, 9, 11} THEN 30 ELSE 31

\* str(n) for n >= 0
RECURSIVE Decimal(_)
Decimal(n) ==
    IF n < 10 THEN <<Digits[n + 1]>>
    ELSE Decimal(n \div 10) \o <<Digits[(n % 10) + 1]>>

Pad2(n) == <<Digits[(n \div 10) + 1], Digits[(n % 10) + 1]>>

\* %Y: the C library's strftime decides whether a year below 1000 is zero-padded
\* (glibc does not pad; the variable zero_pad_year is the platform's choice)
YearStr(y) ==
    IF y >= 1000 THEN Decimal(y)
    ELSE IF ~zero_pad_year THEN Decimal(y)
    ELSE IF y >= 100 THEN <<"0">> \o Decimal(y)
    ELSE IF y >= 10 THEN <<"0", "0">> \o Decimal(y)
    ELSE <<"0", "0", "0">> \o Decimal(y)

\* a bug: the format written has the seconds, the format parsed has not
strftime_with_seconds(x) ==
    YearStr(x.year) \o Pad2(x.month) \o Pad2(x.day) \o Pad2(x.hour) \o Pad2(x.minute)
      \o Pad2(x.second)

\* x.strftime('%Y%m%d%H%M'): the seconds are dropped
strftime(x) ==
    YearStr(x.year) \o Pad2(x.month) \o Pad2(x.day) \o Pad2(x.hour) \o Pad2(x.minute)

\* value of the digits str[from..from+n-1], or -1 when they are not n digits of str
NumAt(str, from, n) ==
    IF from + n - 1 > Len(str) THEN -1
    ELSE IF \E i \in from..(from + n - 1) : ~IsDigit(str[i]) THEN -1
    ELSE IF n = 1 THEN DigitVal(str[from])
    ELSE 10 * DigitVal(str[from]) + DigitVal(str[from + 1])

\* the directive's regular expression: the two-digit alternatives come first
\*   %m 1[0-2]|0[1-9]|[1-9]   %d 3[0-1]|[1-2]\d|0[1-9]|[1-9]
\*   %H 2[0-3]|[0-1]\d|\d     %M [0-5]\d|\d
DirectiveMatches(d, str, from, n) ==
    LET v == NumAt(str, from, n)
    IN  CASE d = "m" -> IF n = 2 THEN v >= 1 /\ v <= 12 ELSE v >= 1
          [] d = "d" -> IF n = 2 THEN v >= 1 /\ v <= 31 ELSE v >= 1
          [] d = "H" -> IF n = 2 THEN v >= 0 /\ v <= 23 ELSE v >= 0
          [] d = "M" -> IF n = 2 THEN v >= 0 /\ v <= 59 ELSE v >= 0

\* the start of each directive's text when the directives take the widths w
StartOf(w, k) ==
    IF k = 1 THEN 5
    ELSE IF k = 2 THEN 5 + w[1]
    ELSE IF k = 3 THEN 5 + w[1] + w[2]
    ELSE IF k = 4 THEN 5 + w[1] + w[2] + w[3]
    ELSE 5 + w[1] + w[2] + w[3] + w[4]

\* the ways the pattern (\d\d\d\d)(m)(d)(H)(M) matches a prefix of str
PatternMatches(str) ==
    {w \in [1..4 -> {1, 2}] :
        /\ Len(str) >= 4
        /\ \A i \in 1..4 : IsDigit(str[i])
        /\ DirectiveMatches("m", str, StartOf(w, 1), w[1])
        /\ DirectiveMatches("d", str, StartOf(w, 2), w[2])
        /\ DirectiveMatches("H", str, StartOf(w, 3), w[3])
        /\ DirectiveMatches("M", str, StartOf(w, 4), w[4])}

\* the match the regular expression engine finds: it backtracks over the
\* alternatives in order, the two-digit ones first
FirstMatch(matches) ==
    CHOOSE x \in matches :
        \A z \in matches :
            8 * z[1] + 4 * z[2] + 2 * z[3] + z[4] <= 8 * x[1] + 4 * x[2] + 2 * x[3] + x[4]

\* the datetime of the match w: text left after the match ("unconverted data
\* remains") or a date that does not exist raises ValueError
DatetimeOfMatch(str, w) ==
    LET y  == 1000 * DigitVal(str[1]) + 100 * DigitVal(str[2])
              + 10 * DigitVal(str[3]) + DigitVal(str[4])
        mo == NumAt(str, StartOf(w, 1), w[1])
        d  == NumAt(str, StartOf(w, 2), w[2])
    IN  IF StartOf(w, 5) - 1 # Len(str) THEN [ok |-> FALSE, dt |-> NoDatetime]
        ELSE IF y < 1 \/ d > DaysInMonth(y, mo) THEN [ok |-> FALSE, dt |-> NoDatetime]
        ELSE [ok |-> TRUE,
              dt |-> datetime(y, mo, d, NumAt(str, StartOf(w, 3), w[3]),
                              NumAt(str, StartOf(w, 4), w[4]), 0)]

\* datetime.strptime(str, '%Y%m%d%H%M'): [ok, dt]
strptime(str) ==
    IF PatternMatches(str) = {} THEN [ok |-> FALSE, dt |-> NoDatetime]
    ELSE DatetimeOfMatch(str, FirstMatch(PatternMatches(str)))

----------------------------------------------------------------------------
(* Field values: a Python str or a datetime *)

Str(w) == [kind |-> "str", str |-> w, dt |-> NoDatetime]

Dt(x) == [kind |-> "datetime", str |-> <<>>, dt |-> x]

----------------------------------------------------------------------------
(* The namedtuple types *)

sceneid_params == <<"product", "satellite", "tile_id", "timestamp", "tag">>

\* sceneid_params.__new__.__defaults__ = ('0',): the default of the last field
sceneid_defaults == <<Str(<<"0">>)>>

scenesetid_params == <<"satellite", "tile_id", "timestamp">>

Classes == {"NormalizedScenesetId", "NormalizedSceneId"}

\* cls.tuple_type._fields
Fields(c) == IF c = "NormalizedSceneId" THEN sceneid_params ELSE scenesetid_params

\* cls.tuple_type.__new__.__defaults__
Defaults(c) == IF c = "NormalizedSceneId" THEN sceneid_defaults ELSE <<>>

timestamp_fields == {"timestamp"}

FieldNames(c) == {Fields(c)[i] : i \in 1..Len(Fields(c))}

IndexOf(c, name) == CHOOSE i \in 1..Len(Fields(c)) : Fields(c)[i] = name

\* tuple_type(*args): [ok, params]; too few or too many arguments raise TypeError,
\* trailing fields left out take their defaults
TupleNew(c, args) ==
    LET n == Len(Fields(c))
        k == Len(Defaults(c))
    IN  IF Len(args) > n \/ Len(args) < n - k THEN [ok |-> FALSE, params |-> <<>>]
        ELSE [ok |-> TRUE,
              params |-> [i \in 1..n |-> IF i <= Len(args) THEN args[i]
                                         ELSE Defaults(c)[i - (n - k)]]]

\* tuple_type(**data): [ok, params]; an unexpected keyword or a missing field
\* without default raises TypeError
TupleNewKw(c, data) ==
    LET n == Len(Fields(c))
        k == Len(Defaults(c))
    IN  IF \E name \in DOMAIN data : name \notin FieldNames(c)
          THEN [ok |-> FALSE, params |-> <<>>]
        ELSE IF \E i \in 1..(n - k) : Fields(c)[i] \notin DOMAIN data
          THEN [ok |-> FALSE, params |-> <<>>]
        ELSE [ok |-> TRUE,
              params |-> [i \in 1..n |-> IF Fields(c)[i] \in DOMAIN data
                                         THEN data[Fields(c)[i]]
                                         ELSE Defaults(c)[i - (n - k)]]]

----------------------------------------------------------------------------
(* StringableTuple *)

NoId == [cls |-> "None", params |-> <<>>]

TypeError == [cls |-> "TypeError", params |-> <<>>]

ValueError == [cls |-> "ValueError", params |-> <<>>]

IsId(x) == x.cls \in Classes

\* cls(*args): __init__ stores tuple_type(*args) in self.params
New(c, args) ==
    LET t == TupleNew(c, args)
    IN  IF t.ok THEN [cls |-> c, params |-> t.params] ELSE TypeError

\* cls(**data)
NewKw(c, data) ==
    LET t == TupleNewKw(c, data)
    IN  IF t.ok THEN [cls |-> c, params |-> t.params] ELSE TypeError

\* _tostr(x): a str
Tostr(x) == IF x.kind = "datetime" THEN strftime(x.dt) ELSE x.str

\* _fromstr(s, fieldname): [ok, val]
Fromstr(str, fieldname) ==
    IF fieldname \in timestamp_fields
      THEN LET p == strptime(str) IN [ok |-> p.ok, val |-> Dt(p.dt)]
      ELSE [ok |-> TRUE, val |-> Str(str)]

\* self.str_tuple: the fields converted to str, in declared order
str_tuple(x) == [i \in 1..Len(x.params) |-> Tostr(x.params[i])]

\* str(self)
to_str(x) == Join(str_tuple(x), <<"_">>)

\* cls.from_str(s, separator)
from_str(c, str, separator) ==
    LET tokens == Split(str, separator)
        t == TupleNew(c, [i \in 1..Len(tokens) |-> Str(tokens[i])])
        conv == [i \in 1..Len(t.params) |-> Fromstr(t.params[i].str, Fields(c)[i])]
    IN  IF ~t.ok THEN TypeError
        ELSE IF \E i \in 1..Len(conv) : ~conv[i].ok THEN ValueError
        ELSE New(c, [i \in 1..Len(conv) |-> conv[i].val])

\* self.params._asdict() updated with kwargs: a new dict
UpdatedDict(x, kw) ==
    LET data == [name \in FieldNames(x.cls) |-> x.params[IndexOf(x.cls, name)]]
    IN  [name \in (DOMAIN data) \cup (DOMAIN kw) |->
            IF name \in DOMAIN kw THEN kw[name] ELSE data[name]]

\* a bug: the fields are replaced in self, and self is returned
copy_with_in_place(x, kw) ==
    [self |-> NewKw(x.cls, UpdatedDict(x, kw)), result |-> NewKw(x.cls, UpdatedDict(x, kw))]

\* self.copy_with(**kwargs): self afterwards, and the object returned
copy_with(x, kw) ==
    [self |-> x, result |-> NewKw(x.cls, UpdatedDict(x, kw))]

\* self.__getattr__(item): the field of self.params
GetAttr(x, item) == x.params[IndexOf(x.cls, item)]

\* self == other
Eq(x, y) == str_tuple(x) = str_tuple(y)

\* Python's t < u on two tuples of str
RECURSIVE TupleLt(_, _)
TupleLt(t, u) ==
    IF u = <<>> THEN FALSE
    ELSE IF t = <<>> THEN TRUE
    ELSE IF Head(t) # Head(u) THEN StrLt(Head(t), Head(u))
    ELSE TupleLt(Tail(t), Tail(u))

\* a bug: the joined strings are compared, not the tuples of strings
Lt_joined(x, y) == StrLt(to_str(x), to_str(y))

\* self < other
Lt(x, y) == TupleLt(str_tuple(x), str_tuple(y))

----------------------------------------------------------------------------
(* NormalizedSceneId *)

band_names == {<<"b", "l", "u", "e">>, <<"g", "r", "e", "e", "n">>,
               <<"r", "e", "d">>, <<"n", "i", "r">>}

\* a bug: the first fields are taken by position, not the fields named
sceneset_id_positional(x) ==
    New("NormalizedScenesetId", [i \in 1..Len(scenesetid_params) |-> x.params[i]])

\* self.sceneset_id
sceneset_id(x) ==
    New("NormalizedScenesetId",
        [i \in 1..Len(scenesetid_params) |-> GetAttr(x, scenesetid_params[i])])

\* a bug: the tag is left out of the directory
dir_path_without_tag(x) == Join(SubSeq(str_tuple(x), 1, Len(x.params) - 1), <<"/">>)

dir_path(x) == Join(str_tuple(x), <<"/">>)

scenepath_prefix(x) == Join(<<dir_path(x), to_str(x)>>, <<"/">>)

metadata_path(x) ==
    scenepath_prefix(x)
      \o <<"_", "m", "e", "t", "a", "d", "a", "t", "a", ".", "j", "s", "o", "n">>

band_path(x, band) == scenepath_prefix(x) \o <<"_">> \o band \o <<".", "t", "i", "f">>

----------------------------------------------------------------------------
(* Inputs of the identity operations *)

ProductVals == {<<"L", "1">>, <<"L", "_", "1">>}

SatelliteVals == {<<"S", "A", "T", "1">>, <<"S", "A", "T", "1", "0">>, <<"S", "_", "1">>}

TileVals == {<<"T", "I", "L", "E", "4", "2">>, <<"T", "_", "4", "2">>}

TagVals == {<<"0">>, <<"2">>}

\* 2024-01-01 12:00, the same minute with seconds, another minute, and a
\* three-digit year
Datetimes == {datetime(2024, 1, 1, 12, 0, 0), datetime(2024, 1, 1, 12, 0, 30),
              datetime(2023, 12, 31, 23, 59, 0), datetime(999, 1, 1, 0, 0, 0)}

\* positional arguments of a constructor call; the tag may be left out
ConstructorArgs(c) ==
    IF c = "NormalizedScenesetId"
      THEN {<<Str(sat), Str(tile), Dt(ts)>> :
               sat \in SatelliteVals, tile \in TileVals, ts \in Datetimes}
      ELSE {<<Str(p), Str(sat), Str(tile), Dt(ts), Str(tag)>> :
               p \in ProductVals, sat \in SatelliteVals, tile \in TileVals,
               ts \in Datetimes, tag \in TagVals}
           \cup
           {<<Str(p), Str(sat), Str(tile), Dt(ts)>> :
               p \in ProductVals, sat \in SatelliteVals, tile \in TileVals,
               ts \in Datetimes}

Identities(c) == {New(c, args) : args \in ConstructorArgs(c)}

\* tokens of the strings given to from_str: a name, a timestamp, a non-timestamp
TokenVals == {<<"S", "A", "T", "1">>,
              <<"2", "0", "2", "4", "0", "1", "0", "1", "1", "2", "0", "0">>,
              <<"2", "0", "2", "4", "1", "3", "0", "1">>}

InputStrings ==
    {Join(toks, <<"_">>) : toks \in UNION {[1..n -> TokenVals] : n \in 1..MaxTokens}}

\* values and names of the keyword arguments given to copy_with
OverrideVals == {Str(<<"2">>), Dt(datetime(2023, 12, 31, 23, 59, 0))}

OverrideNames == FieldNames("NormalizedSceneId") \cup {"bogus"}

Overrides ==
    UNION {[names -> OverrideVals] :
              names \in {n \in SUBSET OverrideNames : Cardinality(n) <= MaxOverrides}}

NoPaths == [dir |-> <<>>, prefix |-> <<>>, metadata |-> <<>>, band_name |-> <<>>, band |-> <<>>]

NoCmp == [lt |-> FALSE, eq |-> FALSE]

NoKwargs == [name \in {} |-> Str(<<>>)]

----------------------------------------------------------------------------
(* The scene object before anything is constructed *)

\* what is at the path given to FilebasedScene: kind is "file", "dir" or
\* "missing"; nmeta is the number of files matching *_metadata.json in the
\* directory; content is what opening and loading the metadata file gives:
\* "valid" (a JSON object with a scene_id), "no_scene_id" (a JSON object
\* without one), "malformed" (not JSON) or "absent" (no such file)
NoFs == [kind |-> "missing", nmeta |-> 0, content |-> "absent"]

\* state: "none" before the constructor ran, "constructed" once it returned,
\* "failed" when it raised; dict: the names in the instance __dict__;
\* band_urls, metadata: the values stored under these names
NoScene == [state |-> "none", dict |-> {}, band_urls |-> "unset", metadata |-> "unset"]

NoLast == [op |-> "none", outcome |-> "ok", value |-> "unset", opened |-> FALSE]

SceneIdle ==
    /\ fs = NoFs
    /\ scene = NoScene
    /\ reads = 0
    /\ failed_reads = 0
    /\ accesses = 0
    /\ last = NoLast

----------------------------------------------------------------------------
(* Identity operations: each applies one operation to the inputs Init drew *)

\* one identity
InitSingle ==
    /\ \E c \in Classes : a \in Identities(c)
    /\ b = NoId
    /\ s = <<>>
    /\ cls = a.cls

\* two identities of the same type
InitPair ==
    /\ \E c \in Classes : a \in Identities(c) /\ b \in Identities(c)
    /\ s = <<>>
    /\ cls = a.cls

\* a class and a string to decode
InitString ==
    /\ a = NoId
    /\ b = NoId
    /\ s \in InputStrings
    /\ cls \in Classes

Init ==
    /\ InitSingle \/ InitPair \/ InitString
    /\ kwargs = NoKwargs
    /\ op = "init"
    /\ res = NoId
    /\ paths = NoPaths
    /\ cmp = NoCmp
    /\ zero_pad_year \in BOOLEAN
    /\ SceneIdle

\* cls.from_str(s)
FromStr ==
    /\ op = "init" /\ ~IsId(a)
    /\ op' = "from_str"
    /\ res' = from_str(cls, s, "_")
    /\ UNCHANGED <<a, b, s, kwargs, cls, paths, cmp, zero_pad_year>>
    /\ UNCHANGED scene_vars

\* cls.from_str(str(a))
RoundTrip ==
    /\ op = "init" /\ IsId(a) /\ ~IsId(b)
    /\ op' = "roundtrip"
    /\ s' = to_str(a)
    /\ res' = from_str(cls, to_str(a), "_")
    /\ UNCHANGED <<a, b, kwargs, cls, paths, cmp, zero_pad_year>>
    /\ UNCHANGED scene_vars

\* a.copy_with(**kw)
CopyWith ==
    /\ op = "init" /\ IsId(a) /\ ~IsId(b)
    /\ \E kw \in Overrides :
          /\ kwargs' = kw
          /\ a' = copy_with(a, kw).self
          /\ res' = copy_with(a, kw).result
    /\ op' = "copy_with"
    /\ UNCHANGED <<b, s, cls, paths, cmp, zero_pad_year>>
    /\ UNCHANGED scene_vars

\* a.sceneset_id
ScenesetId ==
    /\ op = "init" /\ a.cls = "NormalizedSceneId" /\ ~IsId(b)
    /\ op' = "sceneset_id"
    /\ res' = sceneset_id(a)
    /\ UNCHANGED <<a, b, s, kwargs, cls, paths, cmp, zero_pad_year>>
    /\ UNCHANGED scene_vars

\* a.dir_path(), a.scenepath_prefix(), a.metadata_path(), a.band_path(band)
Paths ==
    /\ op = "init" /\ a.cls = "NormalizedSceneId" /\ ~IsId(b)
    /\ op' = "paths"
    /\ \E band \in band_names :
          paths' = [dir |-> dir_path(a), prefix |-> scenepath_prefix(a),
                    metadata |-> metadata_path(a),
                    band_name |-> band, band |-> band_path(a, band)]
    /\ UNCHANGED <<a, b, s, kwargs, cls, res, cmp, zero_pad_year>>
    /\ UNCHANGED scene_vars

\* a < b and a == b
Compare ==
    /\ op = "init" /\ IsId(a) /\ IsId(b)
    /\ op' = "compare"
    /\ cmp' = [lt |-> Lt(a, b), eq |-> Eq(a, b)]
    /\ UNCHANGED <<a, b, s, kwargs, cls, res, paths, zero_pad_year>>
    /\ UNCHANGED scene_vars

Next == FromStr \/ RoundTrip \/ CopyWith \/ ScenesetId \/ Paths \/ Compare

Spec == Init /\ [][Next]_vars

----------------------------------------------------------------------------
(* FilebasedScene *)

\* setting an attribute of the instance
SetAttr(sc, name, value) ==
    IF name \in {"band_urls", "metadata"}
      THEN [sc EXCEPT !.dict = @ \cup {name}, ![name] = value]
      ELSE [sc EXCEPT !.dict = @ \cup {name}]

\* what a call on the object gives: the object afterwards, "ok" or the
\* exception raised, the value returned, and whether the metadata file was opened
Result(sc, outcome, value, opened) ==
    [scene |-> sc, outcome |-> outcome, value |-> value, opened |-> opened]

\* a bug: the metadata file is loaded by the constructor
FilebasedScene_eager(f, supplied) ==
    IF f.kind = "missing" \/ (f.kind = "dir" /\ f.nmeta # 1) \/ f.content \notin {"valid", "no_scene_id"}
      THEN Result([NoScene EXCEPT !.state = "failed"], "AssertionError", "unset", f.kind # "missing")
      ELSE Result([SetAttr(SetAttr(SetAttr(NoScene, "_path", "set"), "_metadata_path", "set"),
                           "metadata", f.content) EXCEPT !.state = "constructed"],
                  "ok", "object", TRUE)

\* a bug: the first of several metadata files is taken
FilebasedScene_first_match(f, supplied) ==
    IF f.kind = "dir" /\ f.nmeta = 0
      THEN Result([NoScene EXCEPT !.state = "failed"], "AssertionError", "unset", FALSE)
      ELSE Result([SetAttr(SetAttr(NoScene, "_path", "set"), "_metadata_path", "set")
                      EXCEPT !.state = "constructed"],
                  "ok", "object", FALSE)

\* FilebasedScene(path, band_urls), band_urls being None when not supplied
FilebasedScene(f, supplied) ==
    LET o1 == IF supplied THEN SetAttr(NoScene, "band_urls", "supplied") ELSE NoScene
    IN  IF f.kind = "file"
          THEN Result([SetAttr(SetAttr(o1, "_metadata_path", "set"), "_path", "set")
                          EXCEPT !.state = "constructed"],
                      "ok", "object", FALSE)
        ELSE IF f.kind = "dir"
          THEN IF f.nmeta = 1
                 THEN Result([SetAttr(SetAttr(o1, "_path", "set"), "_metadata_path", "set")
                                 EXCEPT !.state = "constructed"],
                             "ok", "object", FALSE)
                 ELSE Result([NoScene EXCEPT !.state = "failed"],
                             "AssertionError", "unset", FALSE)
        ELSE Result([o1 EXCEPT !.state = "constructed"], "ok", "object", FALSE)

\* a bug: a file that cannot be loaded gives an empty mapping
metadata_swallowing_errors(sc, f) ==
    IF "_metadata_path" \notin sc.dict THEN Result(sc, "AttributeError", "unset", FALSE)
    ELSE IF f.content \in {"absent", "malformed"} THEN Result(sc, "ok", "no_scene_id", TRUE)
    ELSE Result(sc, "ok", f.content, TRUE)

\* the function under @cached_property metadata: json.load(open(self._metadata_path))
metadata(sc, f) ==
    IF "_metadata_path" \notin sc.dict THEN Result(sc, "AttributeError", "unset", FALSE)
    ELSE IF f.content = "absent" THEN Result(sc, "FileNotFoundError", "unset", TRUE)
    ELSE IF f.content = "malformed" THEN Result(sc, "JSONDecodeError", "unset", TRUE)
    ELSE Result(sc, "ok", f.content, TRUE)

\* calval.utils.cached_property: reading the attribute `name`, r being the result
\* of calling the decorated function. A value already stored under the name is
\* returned without calling the function; a value the function returns is stored
\* under the name; an exception it raises is passed on and nothing is stored.
cached_property(sc, name, r) ==
    IF name \in sc.dict THEN Result(sc, "ok", sc[name], FALSE)
    ELSE IF r.outcome = "ok" THEN Result(SetAttr(r.scene, name, r.value), "ok", r.value, r.opened)
    ELSE r

\* a bug: the scene id is taken from the metadata file's name, not from the metadata
band_urls_from_file_name(sc, f) ==
    IF "_metadata_path" \notin sc.dict THEN Result(sc, "AttributeError", "unset", FALSE)
    ELSE Result(sc, "ok", "derived", FALSE)

\* the function under @cached_property band_urls
band_urls(sc, f) ==
    LET m == cached_property(sc, "metadata", metadata(sc, f))
    IN  IF m.outcome # "ok" THEN Result(m.scene, m.outcome, "unset", m.opened)
        ELSE IF m.value # "valid" THEN Result(m.scene, "KeyError", "unset", m.opened)
        ELSE IF "_path" \notin m.scene.dict
          THEN Result(m.scene, "AttributeError", "unset", m.opened)
        ELSE Result(m.scene, "ok", "derived", m.opened)

Contents == {"valid", "no_scene_id", "malformed", "absent"}

\* the filesystems a scene is constructed over
Filesystems ==
    {[kind |-> "file", nmeta |-> 1, content |-> c] : c \in Contents \ {"absent"}}
    \cup {[kind |-> "dir", nmeta |-> 0, content |-> "absent"]}
    \cup {[kind |-> "dir", nmeta |-> n, content |-> c] :
             n \in 1..MaxFiles, c \in Contents \ {"absent"}}
    \cup {NoFs}

SceneInit ==
    /\ a = NoId /\ b = NoId /\ s = <<>> /\ kwargs = NoKwargs /\ cls = "None"
    /\ op = "init" /\ res = NoId /\ paths = NoPaths /\ cmp = NoCmp
    /\ zero_pad_year = FALSE
    /\ fs \in Filesystems
    /\ scene = NoScene
    /\ reads = 0
    /\ failed_reads = 0
    /\ accesses = 0
    /\ last = NoLast

Count(r) == IF r.opened THEN 1 ELSE 0

\* the exceptions of open and json.load
LoadErrors == {"FileNotFoundError", "JSONDecodeError"}

CountFailed(r) == IF r.opened /\ r.outcome \in LoadErrors THEN 1 ELSE 0

\* scene = FilebasedScene(path) or FilebasedScene(path, band_urls)
Construct ==
    /\ scene.state = "none"
    /\ \E supplied \in BOOLEAN :
          LET r == FilebasedScene(fs, supplied)
          IN  /\ scene' = r.scene
              /\ reads' = reads + Count(r)
              /\ failed_reads' = failed_reads + CountFailed(r)
              /\ last' = [op |-> "construct", outcome |-> r.outcome, value |-> r.value,
                          opened |-> r.opened]
    /\ UNCHANGED <<fs, accesses>>
    /\ UNCHANGED codec_vars

\* scene.metadata
AccessMetadata ==
    /\ scene.state = "constructed"
    /\ accesses < MaxAccesses
    /\ LET r == cached_property(scene, "metadata", metadata(scene, fs))
       IN  /\ scene' = r.scene
           /\ reads' = reads + Count(r)
           /\ failed_reads' = failed_reads + CountFailed(r)
           /\ last' = [op |-> "metadata", outcome |-> r.outcome, value |-> r.value,
                       opened |-> r.opened]
    /\ accesses' = accesses + 1
    /\ UNCHANGED fs
    /\ UNCHANGED codec_vars

\* scene.band_urls
AccessBandUrls ==
    /\ scene.state = "constructed"
    /\ accesses < MaxAccesses
    /\ LET r == cached_property(scene, "band_urls", band_urls(scene, fs))
       IN  /\ scene' = r.scene
           /\ reads' = reads + Count(r)
           /\ failed_reads' = failed_reads + CountFailed(r)
           /\ last' = [op |-> "band_urls", outcome |-> r.outcome, value |-> r.value,
                       opened |-> r.opened]
    /\ accesses' = accesses + 1
    /\ UNCHANGED fs
    /\ UNCHANGED codec_vars

\* another process rewrites or removes the metadata file between two accesses
\* (two rewrites in a row are one rewrite)
RewriteFile ==
    /\ scene.state = "constructed"
    /\ "_metadata_path" \in scene.dict
    /\ last.op # "rewrite"
    /\ \E c \in Contents \ {fs.content} : fs' = [fs EXCEPT !.content = c]
    /\ last' = [op |-> "rewrite", outcome |-> "ok", value |-> "unset", opened |-> FALSE]
    /\ UNCHANGED <<scene, reads, failed_reads, accesses>>
    /\ UNCHANGED codec_vars

SceneNext == Construct \/ AccessMetadata \/ AccessBandUrls \/ RewriteFile

SceneSpec == SceneInit /\ [][SceneNext]_vars

----------------------------------------------------------------------------
(* Properties of the identity codec, checked under Spec *)

Contains(str, c) == \E i \in 1..Len(str) : str[i] = c

\* no encoded field of x holds the separator
SeparatorFree(x) == \A i \in 1..Len(x.params) : ~Contains(str_tuple(x)[i], "_")

\* every datetime field of x is written with a four-digit year
FourDigitYears(x) ==
    \A i \in 1..Len(x.params) :
        x.params[i].kind = "datetime" => (x.params[i].dt.year >= 1000 \/ zero_pad_year)

IsPrefix(x, y) == Len(x) <= Len(y) /\ SubSeq(y, 1, Len(x)) = x

\* the fields at which the encodings of x and y differ
Differing(x, y) == {i \in 1..Len(x.params) : str_tuple(x)[i] # str_tuple(y)[i]}

FirstDiffering(x, y) == CHOOSE i \in Differing(x, y) : \A j \in Differing(x, y) : i <= j

\* C1 as stated: for every identity built from string fields and a timestamp,
\* from_str(str(identity)) is an identity that compares equal to it.
C1_RoundTripEveryIdentity ==
    op = "roundtrip" => IsId(res) /\ Eq(res, a)

\* C1 amended: when no encoded field holds the separator '_' and the timestamp
\* is written with a four-digit year, from_str(str(identity)) is an identity of
\* the same type that compares equal to it and has the same encoded string.
\* When an encoded field holds the separator, from_str(str(identity)) raises
\* TypeError.
C1_RoundTrip ==
    /\ (op = "roundtrip" /\ SeparatorFree(a) /\ FourDigitYears(a))
           => /\ IsId(res)
              /\ res.cls = a.cls
              /\ Eq(res, a)
              /\ to_str(res) = s
              /\ to_str(res) = to_str(a)
    /\ (op = "roundtrip" /\ ~SeparatorFree(a)) => res = TypeError

\* a scene identity with seconds in its timestamp was encoded and decoded: the
\* result is equal as an identity though its timestamp is another datetime
C1_RoundTripWitness ==
    /\ op = "roundtrip"
    /\ a.cls = "NormalizedSceneId"
    /\ SeparatorFree(a) /\ FourDigitYears(a)
    /\ IsId(res)
    /\ res.params # a.params
    /\ s = <<"L", "1", "_", "S", "A", "T", "1", "_", "T", "I", "L", "E", "4", "2", "_",
             "2", "0", "2", "4", "0", "1", "0", "1", "1", "2", "0", "0", "_", "0">>

C3_DecodeRequiresExactArity ==
    (op = "from_str" /\ Len(Split(s, "_")) # Len(Fields(cls))) => ~IsId(res)

C5_Projection ==
    op = "sceneset_id" =>
        /\ res.cls = "NormalizedScenesetId"
        /\ to_str(res) = str_tuple(a)[2] \o <<"_">> \o str_tuple(a)[3] \o <<"_">>
                         \o str_tuple(a)[4]
        /\ to_str(a) = str_tuple(a)[1] \o <<"_">> \o to_str(res) \o <<"_">> \o str_tuple(a)[5]

\* the scene set of L1_SAT1_TILE42_202401011200_0 was derived:
\* SAT1_TILE42_202401011200
C5_ProjectionWitness ==
    /\ op = "sceneset_id"
    /\ to_str(a) = <<"L", "1", "_", "S", "A", "T", "1", "_", "T", "I", "L", "E", "4", "2", "_",
                     "2", "0", "2", "4", "0", "1", "0", "1", "1", "2", "0", "0", "_", "0">>
    /\ to_str(res) = <<"S", "A", "T", "1", "_", "T", "I", "L", "E", "4", "2", "_",
                       "2", "0", "2", "4", "0", "1", "0", "1", "1", "2", "0", "0">>

\* the fields of the copy, when the overrides name declared fields only
C8_FieldsOfCopy ==
    (op = "copy_with" /\ DOMAIN kwargs \subseteq FieldNames(a.cls)) =>
        /\ res.cls = a.cls
        /\ \A i \in 1..Len(Fields(a.cls)) :
              /\ Fields(a.cls)[i] \in DOMAIN kwargs
                    => res.params[i] = kwargs[Fields(a.cls)[i]]
              /\ Fields(a.cls)[i] \notin DOMAIN kwargs
                    => /\ res.params[i] = a.params[i]
                       /\ str_tuple(res)[i] = str_tuple(a)[i]

\* C8: copy_with returns a new identity whose overridden fields have the given
\* values and whose other fields are those of the original, and leaves the
\* original as it was.
C8_CopyWithFrame ==
    /\ [](C8_FieldsOfCopy)
    /\ [][op' = "copy_with" => a' = a]_vars

\* the tag and one other field of a scene identity were overridden
C8_CopyWithWitness ==
    /\ op = "copy_with"
    /\ a.cls = "NormalizedSceneId"
    /\ DOMAIN kwargs \subseteq FieldNames(a.cls)
    /\ Cardinality(DOMAIN kwargs) = 2
    /\ "tag" \in DOMAIN kwargs
    /\ res.params[5] = Str(<<"2">>)
    /\ res.params[5] # a.params[5]

----------------------------------------------------------------------------
(* Properties of FilebasedScene, checked under SceneSpec *)

Resolved(sc, name) == name \in sc.dict

\* the step is one attribute access of the given name
IsAccess(name) == accesses' = accesses + 1 /\ last'.op = name

\* the constructor opens no file; the reads that did not raise are one once the
\* metadata is resolved and none before
C6_ReadsSoFar ==
    scene.state = "constructed" =>
        /\ last.op = "construct" => reads = 0
        /\ Resolved(scene, "metadata") => reads = failed_reads + 1
        /\ ~Resolved(scene, "metadata") => reads = failed_reads

\* once resolved, the metadata stays resolved with the same value and the file
\* is not opened again
C6_ResolvedStays ==
    Resolved(scene, "metadata") =>
        /\ Resolved(scene', "metadata")
        /\ scene'.metadata = scene.metadata
        /\ reads' = reads
        /\ IsAccess("metadata") => last'.value = scene.metadata /\ ~last'.opened

\* C6: constructing the scene reads nothing; the metadata file is loaded by
\* the first access to .metadata and by no later one, which returns the cached
\* value; the metadata never goes from resolved back to unresolved.
C6_LazyLoadFiresOnce ==
    /\ [](C6_ReadsSoFar)
    /\ [][C6_ResolvedStays]_vars

\* a scene over a directory with one metadata file had .metadata read twice,
\* and the file was opened once
C6_LazyLoadWitness ==
    /\ fs.kind = "dir" /\ fs.nmeta = 1
    /\ scene.state = "constructed"
    /\ accesses = 2
    /\ ~Resolved(scene, "band_urls")
    /\ scene.metadata = "valid"
    /\ last.op = "metadata" /\ last.outcome = "ok" /\ ~last.opened
    /\ reads = 1 /\ failed_reads = 0

\* C7: constructing a scene from a directory raises, and gives no object, when
\* the directory holds no or several files matching *_metadata.json, and
\* succeeds when it holds exactly one.
C7_AmbiguityDetectedAtConstruction ==
    (scene.state # "none" /\ fs.kind = "dir") =>
        IF fs.nmeta = 1
          THEN scene.state = "constructed" /\ Resolved(scene, "_metadata_path")
          ELSE /\ scene.state = "failed"
               /\ scene.dict = {}
               /\ last.op = "construct" /\ last.outcome = "AssertionError"

\* the constructor raised on a directory with two metadata files
C7_AmbiguityWitness ==
    /\ fs.kind = "dir" /\ fs.nmeta >= 2
    /\ scene.state = "failed"
    /\ last.outcome = "AssertionError"

\* an access to .metadata that raised left the metadata unresolved
C9_ErrorLeavesUnresolved ==
    (last.op = "metadata" /\ last.outcome # "ok") => ~Resolved(scene, "metadata")

\* an access to the unresolved metadata opens the file again: it raises and
\* stays unresolved while the file cannot be loaded, and resolves once it can
C9_UnresolvedRetries ==
    (IsAccess("metadata") /\ ~Resolved(scene, "metadata") /\ Resolved(scene, "_metadata_path"))
        => /\ reads' = reads + 1
           /\ last'.opened
           /\ IF fs.content \in {"malformed", "absent"}
                THEN /\ last'.outcome # "ok"
                     /\ ~Resolved(scene', "metadata")
                     /\ failed_reads' = failed_reads + 1
                ELSE /\ last'.outcome = "ok"
                     /\ Resolved(scene', "metadata")
                     /\ scene'.metadata = fs.content

\* C9: a failure to load the metadata file is raised to the caller and is not
\* cached: the metadata stays unresolved and every later access opens the file
\* again.
C9_NoErrorCaching ==
    /\ [](C9_ErrorLeavesUnresolved)
    /\ [][C9_UnresolvedRetries]_vars

\* two accesses to .metadata opened a malformed file twice and both raised
C9_NoErrorCachingWitness ==
    /\ scene.state = "constructed"
    /\ fs.content = "malformed"
    /\ accesses = 2
    /\ reads = 2 /\ failed_reads = 2
    /\ last.op = "metadata" /\ last.outcome = "JSONDecodeError"
    /\ ~Resolved(scene, "metadata")

\* band_urls derived by the scene imply resolved metadata; a failed access
\* leaves band_urls unresolved
C10_DerivedNeedsMetadata ==
    scene.state = "constructed" =>
        /\ scene.band_urls = "derived" => Resolved(scene, "metadata")
        /\ (last.op = "band_urls" /\ last.outcome # "ok") => ~Resolved(scene, "band_urls")

\* an access to band_urls that are supplied or cached opens no file and
\* returns them; one that is not loads the unresolved metadata first
C10_AccessStep ==
    IsAccess("band_urls") =>
        IF Resolved(scene, "band_urls")
          THEN /\ reads' = reads
               /\ scene' = scene
               /\ last'.outcome = "ok"
               /\ last'.value = scene.band_urls
          ELSE /\ (~Resolved(scene, "metadata") /\ Resolved(scene, "_metadata_path"))
                     => reads' = reads + 1 /\ last'.opened
               /\ Resolved(scene', "band_urls") => Resolved(scene', "metadata")
               /\ ~Resolved(scene', "metadata") => ~Resolved(scene', "band_urls")

\* C10: without band_urls given to the constructor, resolved band_urls imply
\* resolved metadata: the first access to band_urls loads the metadata first,
\* and leaves band_urls unresolved when that fails; with band_urls given to the
\* constructor, an access reads no metadata and returns them.
C10_ResolutionOrder ==
    /\ [](C10_DerivedNeedsMetadata)
    /\ [][C10_AccessStep]_vars

\* the first access of a scene was to band_urls: it loaded the metadata and
\* derived the band urls
C10_ResolutionOrderWitness ==
    /\ scene.state = "constructed"
    /\ accesses = 1
    /\ last.op = "band_urls" /\ last.outcome = "ok" /\ last.opened
    /\ scene.band_urls = "derived"
    /\ Resolved(scene, "metadata")
    /\ reads = 1

=============================================================================
